---- MODULE Spec2Model ----
(***************************************************************************)
(* A model of the strchunk crate: StrChunk / StrChunkMut (UTF-8 validated  *)
(* views over Bytes / BytesMut), the incremental extractor                 *)
(* StrChunk::extract_utf8 and the boundary-checked range operations.       *)
(*                                                                         *)
(* Byte strings are sequences of integers 0..255.  A buffer handle that    *)
(* has been moved, consumed or not yet created is "absent" (some = FALSE). *)
(***************************************************************************)
EXTENDS Integers, Sequences, FiniteSets, TLC

\* ------------------------------------------------------------- bounds
\* Total number of bytes a byte source appends to the raw buffer.
MaxFed == 4
\* Longest string a fixture buffer is constructed from.
MaxLen == 4
\* Largest capacity a StrChunkMut is created with or asked to reserve up to.
MaxCap == 5
\* Deepest call stack before the process overflows its stack.
MaxStack == 4
\* Width of usize in the model (range endpoints are usize values).
UsizeBits == 4

UsizeMax == (2 ^ UsizeBits) - 1

\* Bytes a byte source may deliver: ASCII 'A', two continuation bytes
\* (0x80, 0xB0; neither may start a character) and the lead bytes of a
\* 2-, a 3- and a 4-byte sequence (0xD0, 0xE0, 0xF0; after the last two
\* 0x80 is not a valid second byte, 0xB0 is).
RawBytes == {65, 128, 176, 208, 224, 240}

SeqsUpTo(S, n) == UNION {[1..k -> S] : k \in 0..n}

Drop(s, n) == SubSeq(s, n + 1, Len(s))
Take(s, n) == SubSeq(s, 1, n)

\* ------------------------------------------------- UTF-8, as defined
\* (Unicode, table 3-7: well-formed UTF-8 byte sequences.)  These are the
\* yardstick the properties are stated with; the code's validation is
\* from_utf8 below.
InRange(b, lo, hi) == lo <= b /\ b <= hi

WellFormedChar(c) ==
    \/ Len(c) = 1 /\ InRange(c[1], 0, 127)
    \/ Len(c) = 2 /\ InRange(c[1], 194, 223) /\ InRange(c[2], 128, 191)
    \/ /\ Len(c) = 3
       /\ \/ c[1] = 224 /\ InRange(c[2], 160, 191)
          \/ InRange(c[1], 225, 236) /\ InRange(c[2], 128, 191)
          \/ c[1] = 237 /\ InRange(c[2], 128, 159)
          \/ InRange(c[1], 238, 239) /\ InRange(c[2], 128, 191)
       /\ InRange(c[3], 128, 191)
    \/ /\ Len(c) = 4
       /\ \/ c[1] = 240 /\ InRange(c[2], 144, 191)
          \/ InRange(c[1], 241, 243) /\ InRange(c[2], 128, 191)
          \/ c[1] = 244 /\ InRange(c[2], 128, 143)
       /\ InRange(c[3], 128, 191)
       /\ InRange(c[4], 128, 191)

RECURSIVE IsUtf8(_)
IsUtf8(s) ==
    \/ s = <<>>
    \/ \E k \in 1..4 :
          /\ k <= Len(s)
          /\ WellFormedChar(Take(s, k))
          /\ IsUtf8(Drop(s, k))

\* c is a non-empty proper prefix of a well-formed multi-byte encoding.
IncompleteChar(c) ==
    /\ Len(c) \in 1..3
    /\ \/ Len(c) = 1 /\ InRange(c[1], 194, 244)
       \/ /\ Len(c) >= 2
          /\ \/ InRange(c[1], 225, 236) /\ InRange(c[2], 128, 191)
             \/ c[1] = 224 /\ InRange(c[2], 160, 191)
             \/ c[1] = 237 /\ InRange(c[2], 128, 159)
             \/ InRange(c[1], 238, 239) /\ InRange(c[2], 128, 191)
             \/ c[1] = 240 /\ InRange(c[2], 144, 191)
             \/ InRange(c[1], 241, 243) /\ InRange(c[2], 128, 191)
             \/ c[1] = 244 /\ InRange(c[2], 128, 143)
          /\ Len(c) = 3 => InRange(c[1], 240, 244) /\ InRange(c[3], 128, 191)

\* The length of the longest prefix of s that is valid UTF-8.
LongestValidPrefix(s) ==
    CHOOSE k \in 0..Len(s) :
        /\ IsUtf8(Take(s, k))
        /\ \A j \in (k + 1)..Len(s) : ~IsUtf8(Take(s, j))

\* The invalid sequence at the head of s (s starts with no well-formed
\* character and no incomplete one that runs to the end of s): the longest
\* prefix that could still have begun a character, and at least one byte.
InvalidSeqLen(s) ==
    LET cands == {k \in 1..Len(s) : IncompleteChar(Take(s, k))}
    IN  IF cands = {} THEN 1
        ELSE CHOOSE k \in cands : \A j \in cands : j <= k

\* ------------------------------------------------------------ state
VARIABLES
    raw,    \* the caller's BytesMut: [some, bytes]
    chunk,  \* a StrChunk handle: [some, bytes]
    cmut,   \* a StrChunkMut handle: [some, bytes, cap]
    fed,    \* every byte appended to raw so far, in order
    got,    \* the bytes of every chunk extract_utf8 has handed out, in order
    last,   \* what the last extract_utf8 call returned, and what the caller
            \* has done to the raw buffer since
    stack,  \* the calls of freeze / From<StrChunkMut> in progress
    res,    \* the last operation and its outcome
    input,  \* the byte source forward_all reads: [bytes, pos]
    reader, \* the Utf8Reader around it: [some, buf]
    output, \* the bytes written to forward_all's output so far
    fwd     \* the forward_all future: [pc, chunk, bytes_read, ret]

rdvars == <<input, reader, output, fwd>>

vars == <<raw, chunk, cmut, fed, got, last, stack, res, rdvars>>

Absent == [some |-> FALSE, bytes |-> <<>>]
AbsentMut == [some |-> FALSE, bytes |-> <<>>, cap |-> 0]
Buf(b) == [some |-> TRUE, bytes |-> b]
BufMut(b, c) == [some |-> TRUE, bytes |-> b, cap |-> c]

\* Utf8Reader {inner, buf}: inner is the variable input.
Utf8Reader(b) == [some |-> TRUE, buf |-> b]

\* No forward_all call has been started.
NoTask == [pc |-> "none", chunk |-> <<>>, bytes_read |-> -1, ret |-> "none"]

NoReader ==
    /\ input = [bytes |-> <<>>, pos |-> 0]
    /\ reader = [some |-> FALSE, buf |-> <<>>]
    /\ output = <<>>
    /\ fwd = NoTask

NoCall == [tag |-> "none", error_len |-> 0, rest |-> <<>>, then |-> "nothing"]

NoRange == [kind |-> "None", idx |-> 0]

\* before: for an extract_utf8 call, what the previous call returned and
\* what the caller did to the raw buffer in between.
Result(op, target, tag, src, out, n, msg, range) ==
    [op |-> op, target |-> target, tag |-> tag, src |-> src, out |-> out,
     n |-> n, msg |-> msg, range |-> range, before |-> NoCall]

\* -------------------------------------------- str::from_utf8 (core)
\* The validation extract_utf8 and the TryFrom conversions call.  The
\* result is Ok, or Utf8Error {valid_up_to, error_len}; error_len None
\* (the input ends inside a character) is written 0.
Utf8Ok == [ok |-> TRUE, valid_up_to |-> 0, error_len |-> 0]

\* A faulty variant: an input that ends inside a character is reported
\* as an invalid byte.
Utf8Err_NeverNone(at, n) ==
    [ok |-> FALSE, valid_up_to |-> at, error_len |-> IF n = 0 THEN 1 ELSE n]

\* A faulty variant: the invalid sequence is reported longer than the
\* whole input can be.
Utf8Err_LongError(at, n) ==
    [ok |-> FALSE, valid_up_to |-> at,
     error_len |-> IF n = 0 THEN 0 ELSE n + MaxFed]

Utf8Err(at, n) == [ok |-> FALSE, valid_up_to |-> at, error_len |-> n]

\* A faulty variant: two-byte leaders pass for continuation bytes.
IsCont_Wide(b) == InRange(b, 128, 223)

IsCont(b) == InRange(b, 128, 191)

\* UTF8_CHAR_WIDTH of a first byte >= 0x80; 0 for a byte that starts nothing.
Utf8CharWidth(b) ==
    IF InRange(b, 194, 223) THEN 2
    ELSE IF InRange(b, 224, 239) THEN 3
    ELSE IF InRange(b, 240, 244) THEN 4
    ELSE 0

SecondOk3(first, second) ==
    \/ first = 224 /\ InRange(second, 160, 191)
    \/ InRange(first, 225, 236) /\ InRange(second, 128, 191)
    \/ first = 237 /\ InRange(second, 128, 159)
    \/ InRange(first, 238, 239) /\ InRange(second, 128, 191)

SecondOk4(first, second) ==
    \/ first = 240 /\ InRange(second, 144, 191)
    \/ InRange(first, 241, 243) /\ InRange(second, 128, 191)
    \/ first = 244 /\ InRange(second, 128, 143)

\* index counts the bytes already validated (0-based position of `first`).
RECURSIVE run_utf8_validation(_, _)
run_utf8_validation(v, index) ==
    LET len == Len(v)
        at(i) == v[index + i]      \* the i-th byte of the current character
        w == Utf8CharWidth(at(1))
    IN  IF index >= len THEN Utf8Ok
        ELSE IF at(1) < 128 THEN run_utf8_validation(v, index + 1)
        ELSE IF w = 2 THEN
            IF index + 2 > len THEN Utf8Err(index, 0)
            ELSE IF ~IsCont(at(2)) THEN Utf8Err(index, 1)
            ELSE run_utf8_validation(v, index + 2)
        ELSE IF w = 3 THEN
            IF index + 2 > len THEN Utf8Err(index, 0)
            ELSE IF ~SecondOk3(at(1), at(2)) THEN Utf8Err(index, 1)
            ELSE IF index + 3 > len THEN Utf8Err(index, 0)
            ELSE IF ~IsCont(at(3)) THEN Utf8Err(index, 2)
            ELSE run_utf8_validation(v, index + 3)
        ELSE IF w = 4 THEN
            IF index + 2 > len THEN Utf8Err(index, 0)
            ELSE IF ~SecondOk4(at(1), at(2)) THEN Utf8Err(index, 1)
            ELSE IF index + 3 > len THEN Utf8Err(index, 0)
            ELSE IF ~IsCont(at(3)) THEN Utf8Err(index, 2)
            ELSE IF index + 4 > len THEN Utf8Err(index, 0)
            ELSE IF ~IsCont(at(4)) THEN Utf8Err(index, 3)
            ELSE run_utf8_validation(v, index + 4)
        ELSE Utf8Err(index, 1)

\* A faulty variant: when the input ends inside a character, the valid
\* prefix before it is not reported.
from_utf8_ForgetsPrefix(v) ==
    LET r == run_utf8_validation(v, 0)
    IN  IF ~r.ok /\ r.error_len = 0 THEN Utf8Err(0, 0) ELSE r

from_utf8(v) == run_utf8_validation(v, 0)

\* ------------------------------------------------ BytesMut (bytes)
\* A faulty variant of split_to: the bytes after `at` are dropped.
split_to_Lossy(b, at) == [taken |-> Take(b, at), rest |-> <<>>]

\* A faulty variant of split_to: self keeps the bytes that moved out.
split_to_Duplicating(b, at) == [taken |-> Take(b, at), rest |-> b]

\* split_to(at): the first `at` bytes move out, self keeps the rest.
split_to(b, at) == [taken |-> Take(b, at), rest |-> Drop(b, at)]

\* A faulty variant of split: the last byte stays behind.
split_KeepLast(b) == split_to(b, IF Len(b) > 0 THEN Len(b) - 1 ELSE 0)

\* split(): the whole content moves out, self is left empty.
split(b) == split_to(b, Len(b))

\* ------------------------------------------ StrChunk::extract_utf8
\* Returns the outcome and what is left in src.
\* A faulty variant first: the split one byte past valid_up_to.
extract_utf8_SplitLate(src) ==
    LET r == from_utf8(src)
        e == split_to(src, IF r.valid_up_to < Len(src)
                           THEN r.valid_up_to + 1 ELSE r.valid_up_to)
        whole == split(src)
    IN  IF r.ok THEN [tag |-> "Ok", extracted |-> whole.taken,
                      error_len |-> 0, src |-> whole.rest]
        ELSE [tag |-> IF r.error_len = 0 THEN "Ok" ELSE "Err",
              extracted |-> e.taken, error_len |-> r.error_len,
              src |-> e.rest]

extract_utf8(src) ==
    LET r == from_utf8(src)
    IN  IF r.ok
        THEN LET bytes == split(src)
             IN  [tag |-> "Ok", extracted |-> bytes.taken,
                  error_len |-> 0, src |-> bytes.rest]
        ELSE LET bytes == split_to(src, r.valid_up_to)
             IN  IF r.error_len = 0
                 THEN [tag |-> "Ok", extracted |-> bytes.taken,
                       error_len |-> 0, src |-> bytes.rest]
                 ELSE [tag |-> "Err", extracted |-> bytes.taken,
                       error_len |-> r.error_len, src |-> bytes.rest]

\* ------------------------------------------------------- actions
\* buf.extend_from_slice(bs): the byte source delivers bs.
ExtendFromSlice(bs) ==
    /\ raw.some
    /\ bs # <<>>
    /\ Len(fed) + Len(bs) <= MaxFed
    /\ raw' = Buf(raw.bytes \o bs)
    /\ fed' = fed \o bs
    /\ res' = Result("extend_from_slice", "BytesMut", "Ok", <<>>, <<>>, 0,
                     "none", NoRange)
    /\ last' = [last EXCEPT !.then =
                   IF @ = "advance" THEN "advance+extend" ELSE "extend"]
    /\ UNCHANGED <<chunk, cmut, got, stack, rdvars>>

\* StrChunk::extract_utf8(&mut raw); res.out is the returned (or
\* error-carried) chunk, which the caller hands on.
ExtractUtf8 ==
    /\ raw.some
    /\ LET r == extract_utf8(raw.bytes)
       IN  /\ raw' = Buf(r.src)
           /\ got' = got \o r.extracted
           /\ last' = [tag |-> r.tag, error_len |-> r.error_len,
                       rest |-> r.src, then |-> "nothing"]
           /\ res' = [Result("extract_utf8", "BytesMut", r.tag, raw.bytes,
                             r.extracted, r.error_len, "none", NoRange)
                         EXCEPT !.before = last]
    /\ UNCHANGED <<chunk, cmut, fed, stack, rdvars>>

\* A faulty variant of advance: the cursor does not move.
advance_Nothing(b, cnt) == [panic |-> FALSE, bytes |-> b]

\* Buf::advance(cnt) on a BytesMut: panics past the end.
advance(b, cnt) ==
    IF cnt > Len(b) THEN [panic |-> TRUE, bytes |-> b]
    ELSE [panic |-> FALSE, bytes |-> Drop(b, cnt)]

\* input.advance(err.error_len()): the lossy-recovery step a caller takes
\* right after extract_utf8 returned Err.
Advance ==
    /\ raw.some
    /\ last.tag = "Err" /\ last.then = "nothing"
    /\ LET a == advance(raw.bytes, last.error_len)
       IN  /\ raw' = Buf(a.bytes)
           /\ res' = Result("advance", "BytesMut",
                            IF a.panic THEN "Panic" ELSE "Ok",
                            <<>>, <<>>, last.error_len, "none", NoRange)
    /\ last' = [last EXCEPT !.then = "advance"]
    /\ UNCHANGED <<chunk, cmut, fed, got, stack, rdvars>>

InitResult == Result("init", "none", "Ok", <<>>, <<>>, 0, "none", NoRange)

\* A caller's empty read buffer: BytesMut::new().
InitExtract ==
    /\ raw = Buf(<<>>)
    /\ chunk = Absent
    /\ cmut = AbsentMut
    /\ fed = <<>>
    /\ got = <<>>
    /\ last = NoCall
    /\ stack = <<>>
    /\ res = InitResult
    /\ NoReader

\* The byte source delivers any non-empty piece that still fits.
NextExtend ==
    raw.some /\ \E k \in 1..(MaxFed - Len(fed)) :
        \E bs \in [1..k -> RawBytes] : ExtendFromSlice(bs)

NextExtract ==
    \/ NextExtend
    \/ ExtractUtf8
    \/ Advance

SpecExtract == InitExtract /\ [][NextExtract]_vars

\* ------------------------------------------- the lossy-recovery loop
\* BytesMut::from(TEST_DATA): the raw buffer holds all the input there
\* will be.
InitLossy ==
    /\ \E s \in SeqsUpTo(RawBytes, MaxFed) : raw = Buf(s) /\ fed = s
    /\ chunk = Absent
    /\ cmut = AbsentMut
    /\ got = <<>>
    /\ last = NoCall
    /\ stack = <<>>
    /\ res = InitResult
    /\ NoReader

\* The loop calls extract_utf8 at its start and again after each advance;
\* it is left when a call returns Ok.
LossyExtract ==
    /\ \/ last.tag = "none"
       \/ last.tag = "Err" /\ last.then = "advance"
    /\ ExtractUtf8

NextLossy ==
    \/ LossyExtract
    \/ Advance

\* A sequential loop: its next step is always taken.
SpecLossy == InitLossy /\ [][NextLossy]_vars /\ WF_vars(NextLossy)

\* ------------------------------------------------------- ranges
\* RangeFull (..), RangeFrom (idx..), RangeTo (..idx), RangeToInclusive
\* (..=idx); SplitRange has the first three.
Range(kind, idx) == [kind |-> kind, idx |-> idx]

\* A faulty variant of checked_add: the sum wraps around.
checked_add_Wrapping(a, b) == (a + b) % (UsizeMax + 1)

\* usize::checked_add: None is written -1.
checked_add(a, b) == IF a + b > UsizeMax THEN -1 ELSE a + b

\* str::is_char_boundary (core): 0 and len are boundaries, beyond len
\* nothing is, and inside the string a byte b is one iff (b as i8) >= -0x40.
is_char_boundary(s, index) ==
    IF index = 0 THEN TRUE
    ELSE IF index >= Len(s) THEN index = Len(s)
    ELSE LET b == s[index + 1]
             as_i8 == IF b >= 128 THEN b - 256 ELSE b
         IN  as_i8 >= -64

\* A faulty variant of str_split_fail: the index is not compared with
\* the length.
str_split_fail_OneMessage(s, range) ==
    IF range.kind = "Full" THEN "unreachable" ELSE "not a boundary"

\* split.rs str_split_fail: which of the two panics a rejected From/To
\* range ends in.
str_split_fail(s, range) ==
    LET index == range.idx
    IN  IF range.kind = "Full" THEN "unreachable"
        ELSE IF index > Len(s) THEN "out of bounds"
        ELSE "not a boundary"

\* split.rs convert_inclusive_range: ..=end becomes ..end+1, or panics.
convert_inclusive_range(range) ==
    LET excl_end == checked_add(range.idx, 1)
    IN  IF excl_end = -1 THEN [panic |-> "too large", range |-> range]
        ELSE [panic |-> "none", range |-> Range("To", excl_end)]

\* split.rs BindSlice<str>::bind_slice for the four range types: the
\* SplitRange, or the panic the validation ends in.
bind_slice(range, slice) ==
    LET bound(r) == IF ~is_char_boundary(slice, r.idx)
                    THEN [panic |-> str_split_fail(slice, r), range |-> r]
                    ELSE [panic |-> "none", range |-> r]
    IN  CASE range.kind = "Full" -> [panic |-> "none", range |-> range]
          [] range.kind = "From" -> bound(range)
          [] range.kind = "To" -> bound(range)
          [] range.kind = "ToInclusive" ->
                LET c == convert_inclusive_range(range)
                IN  IF c.panic # "none" THEN c ELSE bound(c.range)

\* plumbing.rs validate_str_split, on a SplitRange: the panic it ends in,
\* or "none".
validate_str_split(s, range) ==
    LET valid == CASE range.kind = "Full" -> TRUE
                   [] range.kind = "From" -> is_char_boundary(s, range.idx)
                   [] range.kind = "To" -> is_char_boundary(s, range.idx)
    IN  IF ~valid THEN str_split_fail(s, range) ELSE "none"

\* A faulty variant of the storage operation: split_off and split_to
\* exchanged.
bytes_take_range_Swapped(b, range) ==
    LET at == IF range.kind = "ToInclusive" THEN range.idx + 1 ELSE range.idx
    IN  CASE range.kind = "Full" ->
                [panic |-> "none", out |-> b, bytes |-> <<>>]
          [] at > Len(b) ->
                [panic |-> "bytes: out of bounds", out |-> <<>>, bytes |-> b]
          [] range.kind = "From" ->
                [panic |-> "none", out |-> Take(b, at), bytes |-> Drop(b, at)]
          [] OTHER ->
                [panic |-> "none", out |-> Drop(b, at), bytes |-> Take(b, at)]

\* TakeRange for Bytes / BytesMut (range_split over bytes): the storage
\* operation, which itself only checks the index against the length.
\* out is what is split off, bytes what self keeps.
bytes_take_range(b, range) ==
    LET at == IF range.kind = "ToInclusive" THEN range.idx + 1 ELSE range.idx
    IN  CASE range.kind = "Full" ->
                [panic |-> "none", out |-> b, bytes |-> <<>>]
          [] at > Len(b) ->
                [panic |-> "bytes: out of bounds", out |-> <<>>, bytes |-> b]
          [] range.kind = "From" ->                      \* split_off(at)
                [panic |-> "none", out |-> Drop(b, at), bytes |-> Take(b, at)]
          [] OTHER ->                                    \* split_to(at)
                [panic |-> "none", out |-> Take(b, at), bytes |-> Drop(b, at)]

\* A faulty variant of take_range: the storage operation runs before the
\* validation.
StrChunk_take_range_StoreFirst(self, range) ==
    LET t == bytes_take_range(self, range)
        v == bind_slice(range, self)
    IN  IF t.panic # "none" THEN t
        ELSE [panic |-> v.panic, out |-> IF v.panic = "none" THEN t.out ELSE <<>>,
              bytes |-> t.bytes]

\* chunk.rs StrChunk::take_range: assert_str_range!, then the storage
\* operation.  A panic leaves self as the code had it at that point.
StrChunk_take_range(self, range) ==
    LET v == bind_slice(range, self)
        t == bytes_take_range(self, range)
    IN  IF v.panic # "none"
        THEN [panic |-> v.panic, out |-> <<>>, bytes |-> self]
        ELSE t

\* chunk.rs StrChunk::remove_range: as take_range, the output dropped.
StrChunk_remove_range(self, range) ==
    LET v == bind_slice(range, self)
        t == bytes_take_range(self, range)
    IN  IF v.panic # "none"
        THEN [panic |-> v.panic, out |-> <<>>, bytes |-> self]
        ELSE [t EXCEPT !.out = <<>>]

\* The capacity each half of a split BytesMut is left with.
split_cap(cap, len, range, t) ==
    IF t.panic # "none" THEN [self |-> cap, out |-> 0]
    ELSE IF range.kind = "From" THEN [self |-> Len(t.bytes), out |-> cap - Len(t.bytes)]
    ELSE [self |-> cap - Len(t.out), out |-> Len(t.out)]

\* chunk_mut.rs StrChunkMut::take_range.
StrChunkMut_take_range(self, cap, range) ==
    LET v == bind_slice(range, self)
        t == bytes_take_range(self, range)
        c == split_cap(cap, Len(self), range, t)
    IN  IF v.panic # "none"
        THEN [panic |-> v.panic, out |-> <<>>, bytes |-> self, cap |-> cap]
        ELSE [panic |-> t.panic, out |-> t.out, bytes |-> t.bytes,
              cap |-> c.self]

\* chunk_mut.rs StrChunkMut::remove_range.
StrChunkMut_remove_range(self, cap, range) ==
    LET v == bind_slice(range, self)
        t == bytes_take_range(self, range)
        c == split_cap(cap, Len(self), range, t)
    IN  IF v.panic # "none"
        THEN [panic |-> v.panic, out |-> <<>>, bytes |-> self, cap |-> cap]
        ELSE [panic |-> t.panic, out |-> <<>>, bytes |-> t.bytes,
              cap |-> c.self]

Tag(panic) == IF panic = "none" THEN "Ok" ELSE "Panic"

\* TakeRange::take_range(&mut chunk, range), as impls.rs forwards it.
ChunkTakeRange(range) ==
    /\ chunk.some
    /\ LET t == StrChunk_take_range(chunk.bytes, range)
       IN  /\ chunk' = Buf(t.bytes)
           /\ res' = Result("take_range", "StrChunk", Tag(t.panic),
                            chunk.bytes, t.out, 0, t.panic, range)
    /\ UNCHANGED <<raw, cmut, fed, got, last, stack, rdvars>>

ChunkRemoveRange(range) ==
    /\ chunk.some
    /\ LET t == StrChunk_remove_range(chunk.bytes, range)
       IN  /\ chunk' = Buf(t.bytes)
           /\ res' = Result("remove_range", "StrChunk", Tag(t.panic),
                            chunk.bytes, t.out, 0, t.panic, range)
    /\ UNCHANGED <<raw, cmut, fed, got, last, stack, rdvars>>

MutTakeRange(range) ==
    /\ cmut.some
    /\ LET t == StrChunkMut_take_range(cmut.bytes, cmut.cap, range)
       IN  /\ cmut' = BufMut(t.bytes, t.cap)
           /\ res' = Result("take_range", "StrChunkMut", Tag(t.panic),
                            cmut.bytes, t.out, 0, t.panic, range)
    /\ UNCHANGED <<raw, chunk, fed, got, last, stack, rdvars>>

MutRemoveRange(range) ==
    /\ cmut.some
    /\ LET t == StrChunkMut_remove_range(cmut.bytes, cmut.cap, range)
       IN  /\ cmut' = BufMut(t.bytes, t.cap)
           /\ res' = Result("remove_range", "StrChunkMut", Tag(t.panic),
                            cmut.bytes, t.out, 0, t.panic, range)
    /\ UNCHANGED <<raw, chunk, fed, got, last, stack, rdvars>>

\* plumbing.rs validate_str_split(chunk.as_str(), &range): nothing changes
\* but the outcome.
ValidateStrSplit(range) ==
    /\ chunk.some
    /\ range.kind # "ToInclusive"
    /\ LET m == validate_str_split(chunk.bytes, range)
       IN  res' = Result("validate_str_split", "str", Tag(m), chunk.bytes,
                         <<>>, 0, m, range)
    /\ UNCHANGED <<raw, chunk, cmut, fed, got, last, stack, rdvars>>

\* The strings a fixture is built from: every &str is valid UTF-8.
Strs == {s \in SeqsUpTo(RawBytes, MaxLen) : IsUtf8(s)}

\* Range endpoints tried on a buffer of len bytes: every index inside it,
\* its end, one and two past its end, and the top of usize.
Indices(len) == (0..(len + 2)) \cup {UsizeMax}

Ranges(len) ==
    {Range("Full", 0)} \cup
    {Range(k, i) : k \in {"From", "To", "ToInclusive"}, i \in Indices(len)}

\* A test fixture of impls.rs: a string as a StrChunk (From<&str>,
\* from_static, copy_from_slice) or as a StrChunkMut (From<&str>).
InitRange ==
    /\ \E s \in Strs :
          \/ chunk = Buf(s) /\ cmut = AbsentMut
          \/ chunk = Absent /\ cmut = BufMut(s, Len(s))
    /\ raw = Absent
    /\ fed = <<>>
    /\ got = <<>>
    /\ last = NoCall
    /\ stack = <<>>
    /\ res = InitResult
    /\ NoReader

NextRange ==
    \/ chunk.some /\ \E r \in Ranges(Len(chunk.bytes)) : ChunkTakeRange(r)
    \/ chunk.some /\ \E r \in Ranges(Len(chunk.bytes)) : ChunkRemoveRange(r)
    \/ cmut.some /\ \E r \in Ranges(Len(cmut.bytes)) : MutTakeRange(r)
    \/ cmut.some /\ \E r \in Ranges(Len(cmut.bytes)) : MutRemoveRange(r)
    \/ chunk.some /\ \E r \in Ranges(Len(chunk.bytes)) : ValidateStrSplit(r)

SpecRange == InitRange /\ [][NextRange]_vars

\* ------------------------------------------------- StrChunk::slice
\* The bounds a RangeBounds value denotes on a buffer of len bytes, as
\* Bytes::slice computes them: an inclusive end is end + 1 and must not
\* overflow.  range.idx is the start of a range that has one, else its end.
slice_bounds(range, end, len) ==
    LET begin == IF range.kind \in {"From", "Span", "SpanInclusive"}
                 THEN range.idx ELSE 0
        last_ == IF range.kind \in {"To", "ToInclusive"} THEN range.idx ELSE end
        stop == CASE range.kind \in {"Full", "From"} -> len
                  [] range.kind \in {"ToInclusive", "SpanInclusive"} ->
                        checked_add(last_, 1)
                  [] OTHER -> last_
    IN  [begin |-> begin, end |-> stop]

\* A faulty variant of slice: only the start of the range is validated.
StrChunk_slice_StartOnly(self, range, end) ==
    LET b == slice_bounds(range, end, Len(self))
    IN  IF b.end = -1 \/ ~is_char_boundary(self, b.begin)
        THEN [panic |-> "not a str range", out |-> <<>>]
        ELSE IF b.begin > b.end \/ b.end > Len(self)
        THEN [panic |-> "bytes: out of bounds", out |-> <<>>]
        ELSE [panic |-> "none", out |-> SubSeq(self, b.begin + 1, b.end)]

\* chunk.rs StrChunk::slice: assert_str_range! (both bounds on character
\* boundaries), then Bytes::slice, which asserts begin <= end <= len.
StrChunk_slice(self, range, end) ==
    LET b == slice_bounds(range, end, Len(self))
    IN  IF \/ b.end = -1
           \/ ~is_char_boundary(self, b.begin)
           \/ ~is_char_boundary(self, b.end)
        THEN [panic |-> "not a str range", out |-> <<>>]
        ELSE IF b.begin > b.end \/ b.end > Len(self)
        THEN [panic |-> "bytes: out of bounds", out |-> <<>>]
        ELSE [panic |-> "none", out |-> SubSeq(self, b.begin + 1, b.end)]

\* chunk.slice(range): self is borrowed, res.out is the new handle; res.n
\* is the end of a start..end or start..=end range.
ChunkSlice(range, end) ==
    /\ chunk.some
    /\ LET t == StrChunk_slice(chunk.bytes, range, end)
       IN  res' = Result("slice", "StrChunk", Tag(t.panic), chunk.bytes,
                         t.out, end, t.panic, range)
    /\ UNCHANGED <<raw, chunk, cmut, fed, got, last, stack, rdvars>>

Max(a, b) == IF a >= b THEN a ELSE b

\* --------------------------------------------- checked conversions
\* TryFrom<Bytes> for StrChunk (TryFrom<BytesMut> freezes and forwards to
\* it) and TryFrom<BytesMut> for StrChunkMut: from_utf8(&bytes)?, then
\* the bytes are wrapped as they are.
\* A faulty variant first: an input ending inside a character is let in.
StrChunk_try_from_AcceptsIncomplete(bytes) ==
    LET r == from_utf8(bytes)
    IN  IF r.ok \/ r.error_len = 0
        THEN [tag |-> "Ok", bytes |-> bytes, err |-> r]
        ELSE [tag |-> "Err", bytes |-> <<>>, err |-> r]

StrChunk_try_from(bytes) ==
    LET r == from_utf8(bytes)
    IN  IF r.ok THEN [tag |-> "Ok", bytes |-> bytes, err |-> r]
        ELSE [tag |-> "Err", bytes |-> <<>>, err |-> r]

StrChunkMut_try_from(bytes) ==
    LET r == from_utf8(bytes)
    IN  IF r.ok THEN [tag |-> "Ok", bytes |-> bytes, err |-> r]
        ELSE [tag |-> "Err", bytes |-> <<>>, err |-> r]

\* StrChunk::try_from(raw) / StrChunkMut::try_from(raw): raw is moved in
\* (its history ends with it); on Ok the new handle owns the bytes
\* (res.out), on Err they are dropped.
\* The converted BytesMut was filled by extend_from_slice: it is taken to
\* be full, as a buffer built From<&str> is.
TryFromBytesMut(target) ==
    /\ raw.some
    /\ LET r == IF target = "StrChunk" THEN StrChunk_try_from(raw.bytes)
                ELSE StrChunkMut_try_from(raw.bytes)
       IN  /\ res' = Result("try_from", target, r.tag, raw.bytes, r.bytes,
                            r.err.valid_up_to, "none", NoRange)
           /\ IF r.tag = "Ok" /\ target = "StrChunk"
              THEN chunk' = Buf(r.bytes) /\ cmut' = cmut
              ELSE IF r.tag = "Ok"
              THEN chunk' = chunk /\ cmut' = BufMut(r.bytes, Len(r.bytes))
              ELSE chunk' = chunk /\ cmut' = cmut
    /\ raw' = Absent
    /\ fed' = <<>>
    /\ got' = <<>>
    /\ last' = NoCall
    /\ UNCHANGED <<stack, rdvars>>

\* From<StrChunk> for Bytes, From<StrChunkMut> for BytesMut (and for
\* Bytes): the handle is consumed and its byte buffer handed back.
into_bytes(self) == self

\* Bytes::from(chunk) / BytesMut::from(cmut): the buffer is the caller's
\* raw buffer again.
IntoBytes(source) ==
    /\ IF source = "StrChunk" THEN chunk.some ELSE cmut.some
    /\ LET self == IF source = "StrChunk" THEN chunk.bytes ELSE cmut.bytes
       IN  /\ raw' = Buf(into_bytes(self))
           /\ res' = Result("into_bytes", source, "Ok", self,
                            into_bytes(self), 0, "none", NoRange)
    /\ chunk' = IF source = "StrChunk" THEN Absent ELSE chunk
    /\ cmut' = IF source = "StrChunk" THEN cmut ELSE AbsentMut
    /\ fed' = raw'.bytes
    /\ UNCHANGED <<got, last, stack, rdvars>>

\* ------------------------------------------------- StrChunkMut
\* The code points appended: one of each encoded length (U+0041, U+0416,
\* U+20AC, U+1F600).
Chars == {65, 1046, 8364, 128512}

len_utf8(c) ==
    IF c < 128 THEN 1 ELSE IF c < 2048 THEN 2 ELSE IF c < 65536 THEN 3 ELSE 4

\* char::encode_utf8 (core).
encode_utf8(c) ==
    CASE len_utf8(c) = 1 -> <<c>>
      [] len_utf8(c) = 2 -> <<192 + (c \div 64), 128 + (c % 64)>>
      [] len_utf8(c) = 3 -> <<224 + (c \div 4096), 128 + ((c \div 64) % 64),
                              128 + (c % 64)>>
      [] OTHER -> <<240 + (c \div 262144), 128 + ((c \div 4096) % 64),
                    128 + ((c \div 64) % 64), 128 + (c % 64)>>

\* The strings appended by put_str: up to two of the code points.
Texts ==
    {<<>>} \cup {encode_utf8(c) : c \in Chars}
           \cup {encode_utf8(c) \o encode_utf8(d) : c \in Chars, d \in Chars}

\* What BytesMut::bytes_mut() reserves when the buffer is full.
BytesMutGrow == 64


\* A faulty variant of reserve: `additional` is taken for the capacity
\* wanted in all.
reserve_Total(len, cap, additional) == Max(cap, additional)

\* BytesMut::reserve(additional): the capacity afterwards, the least the
\* contract allows.
reserve(len, cap, additional) == Max(cap, len + additional)

\* BufMut::bytes_mut() for BytesMut: the spare capacity, first grown when
\* there is none.  Returns the capacity the buffer then has.
bytes_mut(len, cap) ==
    IF cap = len THEN reserve(len, cap, BytesMutGrow) ELSE cap

\* chunk_mut.rs StrChunkMut::put_char: encode_utf8 into the spare
\* capacity (panics when it is too short, writing nothing), advance_mut.
put_char(self, cap, c) ==
    LET cap1 == bytes_mut(Len(self), cap)
        buf_len == cap1 - Len(self)
    IN  IF buf_len < len_utf8(c)
        THEN [panic |-> "encode_utf8: buffer too short", bytes |-> self,
              cap |-> cap1]
        ELSE [panic |-> "none", bytes |-> self \o encode_utf8(c),
              cap |-> cap1]

\* chunk_mut.rs StrChunkMut::put_str: BytesMut::put_slice, which makes
\* room for the slice.
put_str(self, cap, string) ==
    [panic |-> "none", bytes |-> self \o string,
     cap |-> reserve(Len(self), cap, Len(string))]

PutChar(c) ==
    /\ cmut.some
    /\ Len(cmut.bytes) + len_utf8(c) <= MaxLen
    /\ LET t == put_char(cmut.bytes, cmut.cap, c)
       IN  /\ cmut' = BufMut(t.bytes, t.cap)
           /\ res' = Result("put_char", "StrChunkMut", Tag(t.panic),
                            cmut.bytes, <<>>, c, t.panic, NoRange)
    /\ UNCHANGED <<raw, chunk, fed, got, last, stack, rdvars>>

PutStr(s) ==
    /\ cmut.some
    /\ Len(cmut.bytes) + Len(s) <= MaxLen
    /\ LET t == put_str(cmut.bytes, cmut.cap, s)
       IN  /\ cmut' = BufMut(t.bytes, t.cap)
           /\ res' = Result("put_str", "StrChunkMut", Tag(t.panic),
                            cmut.bytes, <<>>, Len(s), t.panic, NoRange)
    /\ UNCHANGED <<raw, chunk, fed, got, last, stack, rdvars>>

Reserve(additional) ==
    /\ cmut.some
    /\ Len(cmut.bytes) + additional <= MaxCap
    /\ cmut' = BufMut(cmut.bytes,
                      reserve(Len(cmut.bytes), cmut.cap, additional))
    /\ res' = Result("reserve", "StrChunkMut", "Ok", cmut.bytes, <<>>,
                     additional, "none", NoRange)
    /\ UNCHANGED <<raw, chunk, fed, got, last, stack, rdvars>>

\* ------------------------------------ iterators of chars
MaxChars == 3

\* What an iterator of chars will yield.
CharSeqs == SeqsUpTo(Chars, MaxChars)

\* size_hint().0 as read after the first item was taken: 0 (nothing
\* promised), the number of items left (exact), or usize::MAX (an
\* adapter that gave up counting).
SizeHints(iter) ==
    IF iter = <<>> THEN {0} ELSE {0, Len(iter) - 1, UsizeMax}

Min(a, b) == IF a <= b THEN a ELSE b

\* usize::saturating_add.
saturating_add(a, b) == Min(a + b, UsizeMax)

RECURSIVE Encoded(_)
Encoded(chars) ==
    IF chars = <<>> THEN <<>>
    ELSE encode_utf8(Head(chars)) \o Encoded(Tail(chars))

\* extend_chars_loop(ch, iter): put_char(ch); then, while the iterator
\* yields another, reserve(4) and go round.  spare is the least
\* remaining capacity found at a put_char call so far.  Allocation is
\* taken to succeed.
RECURSIVE extend_chars_loop(_, _, _, _, _)
extend_chars_loop(self, cap, ch, iter, spare) ==
    LET seen == Min(spare, cap - Len(self))
        t == put_char(self, cap, ch)
    IN  IF t.panic # "none" \/ iter = <<>>
        THEN [panic |-> t.panic, bytes |-> t.bytes, cap |-> t.cap,
              spare |-> seen]
        ELSE extend_chars_loop(t.bytes, reserve(Len(t.bytes), t.cap, 4),
                               Head(iter), Tail(iter), seen)

\* StrChunkMut::from_iter_chars: new() for an empty iterator, else
\* with_capacity(size_hint + 5) and the loop.
from_iter_chars(iter, hint) ==
    IF iter = <<>>
    THEN [panic |-> "none", bytes |-> <<>>, cap |-> 0, spare |-> 0]
    ELSE LET cap == saturating_add(hint, 5)
         IN  extend_chars_loop(<<>>, cap, Head(iter), Tail(iter), cap)

\* StrChunkMut::extend_chars: nothing for an empty iterator, else
\* reserve(size_hint + 5) and the loop.
extend_chars(self, cap, iter, hint) ==
    IF iter = <<>>
    THEN [panic |-> "none", bytes |-> self, cap |-> cap, spare |-> 0]
    ELSE LET cap1 == reserve(Len(self), cap, saturating_add(hint, 5))
         IN  extend_chars_loop(self, cap1, Head(iter), Tail(iter),
                               cap1 - Len(self))

\* res.out: the encodings of the characters the iterator yields; res.n:
\* the least remaining capacity at a put_char call; res.range: the hint.
IterResult(op, self, iter, hint, t) ==
    Result(op, "StrChunkMut", Tag(t.panic), self, Encoded(iter), t.spare,
           t.panic, [kind |-> "size_hint", idx |-> hint])

\* let buf: StrChunkMut = iter.collect();
FromIterChars(iter, hint) ==
    /\ LET t == from_iter_chars(iter, hint)
       IN  /\ cmut' = BufMut(t.bytes, t.cap)
           /\ res' = IterResult("from_iter", <<>>, iter, hint, t)
    /\ UNCHANGED <<raw, chunk, fed, got, last, stack, rdvars>>

\* buf.extend(iter);
ExtendChars(iter, hint) ==
    /\ cmut.some
    /\ LET t == extend_chars(cmut.bytes, cmut.cap, iter, hint)
       IN  /\ cmut' = BufMut(t.bytes, t.cap)
           /\ res' = IterResult("extend", cmut.bytes, iter, hint, t)
    /\ UNCHANGED <<raw, chunk, fed, got, last, stack, rdvars>>

\* chunk_mut.rs StrChunkMut::freeze calls StrChunk::from(self), and
\* From<StrChunkMut> for StrChunk calls src.freeze(): what a frame calls.
callee(fn) == IF fn = "freeze" THEN "from" ELSE "freeze"

Frame(fn, self) == [fn |-> fn, self |-> self]

\* cmut.freeze() or StrChunk::from(cmut): cmut is moved into the call.
FreezeCall(fn) ==
    /\ cmut.some
    /\ stack = <<>>
    /\ stack' = <<Frame(fn, cmut.bytes)>>
    /\ cmut' = AbsentMut
    /\ res' = Result(fn, "StrChunkMut", "Running", cmut.bytes, <<>>, 0,
                     "none", NoRange)
    /\ UNCHANGED <<raw, chunk, fed, got, last, rdvars>>

\* The body of the frame on top runs: it makes its one call.
FreezeStep ==
    /\ stack # <<>>
    /\ Len(stack) < MaxStack
    /\ LET top == stack[Len(stack)]
       IN  stack' = Append(stack, Frame(callee(top.fn), top.self))
    /\ UNCHANGED <<raw, chunk, cmut, fed, got, last, res, rdvars>>

\* The stack is exhausted: the process is aborted inside the call.
StackOverflow ==
    /\ Len(stack) = MaxStack
    /\ res.tag = "Running"
    /\ res' = [res EXCEPT !.tag = "Abort"]
    /\ UNCHANGED <<raw, chunk, cmut, fed, got, last, stack, rdvars>>

\* StrChunkMut::new() (capacity 0) or with_capacity(c).
InitMut ==
    /\ \E c \in 0..MaxCap : cmut = BufMut(<<>>, c)
    /\ chunk = Absent
    /\ raw = Absent
    /\ fed = <<>>
    /\ got = <<>>
    /\ last = NoCall
    /\ stack = <<>>
    /\ res = InitResult
    /\ NoReader

\* A buffer is written, then split: the writes stop once a range
\* operation has been applied to it.
NextMut ==
    \/ cmut.some /\ res.range = NoRange /\ \E c \in Chars : PutChar(c)
    \/ cmut.some /\ res.range = NoRange /\ \E s \in Texts : PutStr(s)
    \/ cmut.some /\ res.range = NoRange /\ \E n \in 1..4 : Reserve(n)
    \/ cmut.some /\ \E fn \in {"freeze", "from"} : FreezeCall(fn)
    \/ FreezeStep
    \/ StackOverflow

\* The conversions are tried on a buffer that has only been filled, and
\* the way back is taken right after a conversion (the round trip).
NextConv ==
    \/ /\ raw.some /\ last.tag = "none"
       /\ \E target \in {"StrChunk", "StrChunkMut"} : TryFromBytesMut(target)
    \/ /\ res.op = "try_from" /\ res.tag = "Ok"
       /\ IntoBytes(res.target)

\* The ranges slice is tried with: every RangeBounds type, with bounds
\* inside the buffer, at and past its end, and the top of usize.
SliceRanges(len) ==
    {<<Range("Full", 0), 0>>} \cup
    {<<Range(k, i), 0>> : k \in {"From", "To", "ToInclusive"},
                          i \in (0..(len + 1)) \cup {UsizeMax}} \cup
    {<<Range(k, i), j>> : k \in {"Span", "SpanInclusive"},
                          i \in 0..(len + 1),
                          j \in (0..(len + 1)) \cup {UsizeMax}}

\* ------------------------------------------- comparison and hashing
\* impls.rs: the string types a buffer is compared with.
OwnTypes == {"StrChunk", "StrChunkMut"}
ForeignTypes == {"str", "&str", "String", "Cow"}

Value(ty, text) == [ty |-> ty, text |-> text]

\* Borrow<str>::borrow: as_str() of a buffer, the text of a string.
borrow(v) == v.text

\* A faulty variant of the comparison: only the lengths are compared.
own_eq_ByLength(a, b) == Len(borrow(a)) = Len(borrow(b))

\* impls.rs impl_partial_eq!: PartialEq<Rhs> for StrChunk / StrChunkMut,
\* Rhs any of the six types: the two borrowed strs are compared.
own_eq(a, b) == borrow(a) = borrow(b)

\* a == b as the compiler dispatches it: impl_partial_eq! when a is a
\* buffer; impl_partial_eq_rhs! (other == self) when a is a foreign string
\* and b a buffer; the standard library's own comparison otherwise.
eq(a, b) ==
    IF a.ty \in OwnTypes THEN own_eq(a, b)
    ELSE IF b.ty \in OwnTypes THEN own_eq(b, a)
    ELSE a.text = b.text

\* Hash for str (core): the bytes, then 0xff, are written to the hasher.
str_hash(s) == s \o <<255>>

\* A faulty variant of hash: the byte buffer is hashed as a slice, its
\* length first.
hash_AsBytes(v) == <<Len(v.text)>> \o v.text

\* chunk.rs / chunk_mut.rs impl Hash: self.as_str().hash(state).  The
\* result is what the hasher is fed.
hash(v) == str_hash(borrow(v))

\* The buffer at hand, as a value.
Self ==
    IF chunk.some THEN Value("StrChunk", chunk.bytes)
    ELSE Value("StrChunkMut", cmut.bytes)

\* What the buffer is compared with: its own text, a slice of it up to a
\* character boundary, a longer text, or another text of the same length,
\* held as any of the six types.
Operands(self) ==
    {Value(ty, x) : ty \in OwnTypes \cup ForeignTypes,
                    x \in {self \o <<65>>, [i \in 1..Len(self) |-> 65]} \cup
                          {Take(self, k) : k \in {j \in 0..Len(self) :
                                                 is_char_boundary(self, j)}}}

\* assert_eq!(a, b); assert_eq!(b, a) of the tests: both directions are
\* evaluated; res.tag is a == b, res.n is b == a (1 for true).
Compare(b) ==
    /\ chunk.some \/ cmut.some
    /\ res' = Result("eq", Self.ty, IF eq(Self, b) THEN "true" ELSE "false",
                     Self.text, b.text, IF eq(b, Self) THEN 1 ELSE 0,
                     b.ty, NoRange)
    /\ UNCHANGED <<raw, chunk, cmut, fed, got, last, stack, rdvars>>

\* The buffer is hashed (res.out), and so is the same text held as the
\* type ty (res.src): what each feeds the hasher.
HashOf(ty) ==
    /\ chunk.some \/ cmut.some
    /\ res' = Result("hash", Self.ty, "Ok",
                     IF ty \in OwnTypes THEN hash(Value(ty, Self.text))
                     ELSE str_hash(Self.text),
                     hash(Self), 0, ty, NoRange)
    /\ UNCHANGED <<raw, chunk, cmut, fed, got, last, stack, rdvars>>

NextCmp ==
    \/ \E b \in Operands(Self.text) : Compare(b)
    \/ \E ty \in OwnTypes \cup ForeignTypes : HashOf(ty)

SpecCmp == InitRange /\ [][NextCmp]_vars

\* ------------------------------------------------------- ordering
\* core::cmp::Ordering: Less = -1, Equal = 0, Greater = 1.
OrderingName(o) == IF o < 0 THEN "Less" ELSE IF o = 0 THEN "Equal" ELSE "Greater"

\* A faulty variant of the slice comparison: the shorter slice comes
\* first whatever the bytes are.
slice_cmp_LengthFirst(a, b) ==
    IF Len(a) < Len(b) THEN -1
    ELSE IF Len(a) > Len(b) THEN 1
    ELSE IF a = b THEN 0
    ELSE LET i == CHOOSE j \in 1..Len(a) :
                      a[j] # b[j] /\ \A k \in 1..(j - 1) : a[k] = b[k]
         IN  IF a[i] < b[i] THEN -1 ELSE 1

\* Ord for [u8] (core), which Ord for str, Bytes and BytesMut all come
\* down to: the common length is compared byte by byte, then the lengths.
slice_cmp(a, b) ==
    LET l == Min(Len(a), Len(b))
        diff == {j \in 1..l : a[j] # b[j]}
    IN  IF diff # {}
        THEN LET i == CHOOSE j \in diff : \A k \in diff : j <= k
             IN  IF a[i] < b[i] THEN -1 ELSE 1
        ELSE IF Len(a) < Len(b) THEN -1
        ELSE IF Len(a) > Len(b) THEN 1
        ELSE 0

\* impls.rs impl_partial_ord! (self a buffer) and impl_partial_ord_rhs!
\* (self a foreign string, other a buffer): partial_cmp of the two
\* borrowed strs, self first.
partial_cmp(a, b) == slice_cmp(borrow(a), borrow(b))

\* The operators PartialOrd provides on top of partial_cmp.
lt(a, b) == partial_cmp(a, b) = -1
le(a, b) == partial_cmp(a, b) \in {-1, 0}
gt(a, b) == partial_cmp(a, b) = 1
ge(a, b) == partial_cmp(a, b) \in {0, 1}

OrdOps == {"lt", "le", "gt", "ge"}

Apply(op, a, b) ==
    CASE op = "lt" -> lt(a, b)
      [] op = "le" -> le(a, b)
      [] op = "gt" -> gt(a, b)
      [] OTHER -> ge(a, b)

\* #[derive(Ord)] on StrChunk / StrChunkMut: Ord::cmp of the one field,
\* bytes.
cmp(a, b) == slice_cmp(a.text, b.text)

\* What the buffer is ordered against: the operands of the equality
\* tests, and texts that differ from it in one character.
OrdOperands(self) ==
    Operands(self) \cup
    {Value(ty, Take(self, k) \o encode_utf8(c)) :
        ty \in OwnTypes \cup ForeignTypes,
        k \in {j \in 0..Len(self) : is_char_boundary(self, j)},
        c \in Chars}

\* `a op b` with the buffer on the left, or mirrored, on the right.
\* res.target and res.src are the left operand, res.msg and res.out the
\* right one.
Order(op, b, mirrored) ==
    /\ chunk.some \/ cmut.some
    /\ LET l == IF mirrored THEN b ELSE Self
           r == IF mirrored THEN Self ELSE b
       IN  res' = Result(op, l.ty, IF Apply(op, l, r) THEN "true" ELSE "false",
                         l.text, r.text, IF mirrored THEN 1 ELSE 0, r.ty,
                         NoRange)
    /\ UNCHANGED <<raw, chunk, cmut, fed, got, last, stack, rdvars>>

\* Ord::cmp against a buffer of the same type (res.tag), next to
\* partial_cmp of the same pair (res.n).
TotalOrder(b) ==
    /\ chunk.some \/ cmut.some
    /\ b.ty = Self.ty
    /\ res' = Result("cmp", Self.ty, OrderingName(cmp(Self, b)), Self.text,
                     b.text, partial_cmp(Self, b), b.ty, NoRange)
    /\ UNCHANGED <<raw, chunk, cmut, fed, got, last, stack, rdvars>>

\* Each test orders a fresh fixture against one operand.
NextOrd ==
    \/ /\ res.op = "init"
       /\ \E op \in OrdOps : \E b \in OrdOperands(Self.text) :
              \E mirrored \in BOOLEAN : Order(op, b, mirrored)
    \/ /\ res.op = "init"
       /\ \E b \in OrdOperands(Self.text) : TotalOrder(b)

SpecOrd == InitRange /\ [][NextOrd]_vars

NextSlice ==
    /\ chunk.some
    /\ \E a \in SliceRanges(Len(chunk.bytes)) : ChunkSlice(a[1], a[2])

SpecSlice == InitRange /\ [][NextSlice]_vars

SpecConv == InitExtract /\ [][NextExtend \/ NextConv]_vars

SpecMut == InitMut /\ [][NextMut]_vars

\* A buffer is written char by char, then extended from an iterator, or
\* a new one is collected from an iterator.
NextIter ==
    \/ cmut.some /\ res.range = NoRange /\ \E c \in Chars : PutChar(c)
    \/ cmut.some /\ res.range = NoRange /\ \E n \in 1..4 : Reserve(n)
    \/ /\ cmut.some /\ res.range = NoRange
       /\ \E iter \in CharSeqs : \E hint \in SizeHints(iter) :
              ExtendChars(iter, hint)
    \/ /\ res.op = "init"
       /\ \E iter \in CharSeqs : \E hint \in SizeHints(iter) :
              FromIterChars(iter, hint)

SpecIter == InitMut /\ [][NextIter]_vars

\* ------------------------------ examples/async_read.rs: Utf8Reader
MaxStream == 3

\* The input the source will deliver: any bytes, valid UTF-8 or not.
Streams == SeqsUpTo(RawBytes, MaxStream)

\* What inner.poll_read_buf may report for the source: some of the bytes
\* it still has, at least one, or 0 once it has none left.
ReadSizes ==
    IF input.pos = Len(input.bytes) THEN {0}
    ELSE 1..(Len(input.bytes) - input.pos)

\* Utf8Reader::poll_read_more with the source ready to give n bytes:
\* the bytes are appended to buf; a read of nothing into a non-empty
\* buf is an InvalidData error.
poll_read_more(buf, piece) ==
    IF Len(piece) = 0 /\ buf # <<>>
    THEN [tag |-> "Err", buf |-> buf]
    ELSE [tag |-> "Ok", buf |-> buf \o piece]

\* Utf8Reader::poll_read_utf8: poll_read_more, then extract_utf8 on the
\* buffer; both errors reach the caller as ErrorKind::InvalidData.
poll_read_utf8(buf, piece) ==
    LET m == poll_read_more(buf, piece)
        e == extract_utf8(m.buf)
    IN  IF m.tag = "Err"
        THEN [tag |-> "InvalidData", chunk |-> <<>>, buf |-> m.buf]
        ELSE IF e.tag = "Err"
        THEN [tag |-> "InvalidData", chunk |-> <<>>, buf |-> e.src]
        ELSE [tag |-> "Ok", chunk |-> e.extracted, buf |-> e.src]

\* forward_all awaits poll_read_utf8; `?` returns an error to the caller.
PollReadUtf8(n) ==
    /\ fwd.pc = "poll"
    /\ LET piece == SubSeq(input.bytes, input.pos + 1, input.pos + n)
           r == poll_read_utf8(reader.buf, piece)
       IN  /\ input' = [input EXCEPT !.pos = @ + n]
           /\ reader' = Utf8Reader(r.buf)
           /\ fwd' = IF r.tag = "Ok"
                     THEN [pc |-> "chunk", chunk |-> r.chunk,
                           bytes_read |-> n, ret |-> "none"]
                     ELSE [pc |-> "done", chunk |-> <<>>,
                           bytes_read |-> n, ret |-> "InvalidData"]
    /\ UNCHANGED <<raw, chunk, cmut, fed, got, last, stack, res, output>>

\* if chunk.is_empty() { break }
Break ==
    /\ fwd.pc = "chunk"
    /\ fwd.chunk = <<>>
    /\ fwd' = [fwd EXCEPT !.pc = "flush"]
    /\ UNCHANGED <<raw, chunk, cmut, fed, got, last, stack, res,
                   input, reader, output>>

\* else { output.write_all(chunk.as_str().as_bytes()).await? }
WriteAll ==
    /\ fwd.pc = "chunk"
    /\ fwd.chunk # <<>>
    /\ output' = output \o fwd.chunk
    /\ fwd' = [fwd EXCEPT !.pc = "poll", !.chunk = <<>>]
    /\ UNCHANGED <<raw, chunk, cmut, fed, got, last, stack, res,
                   input, reader>>

\* output.flush().await: forward_all returns Ok(()).
Flush ==
    /\ fwd.pc = "flush"
    /\ fwd' = [fwd EXCEPT !.pc = "done", !.ret = "Ok"]
    /\ UNCHANGED <<raw, chunk, cmut, fed, got, last, stack, res,
                   input, reader, output>>

\* forward_all(input, output) has built Utf8Reader::new(input).
InitReader ==
    /\ \E s \in Streams : input = [bytes |-> s, pos |-> 0]
    /\ reader = Utf8Reader(<<>>)
    /\ output = <<>>
    /\ fwd = [pc |-> "poll", chunk |-> <<>>, bytes_read |-> -1,
              ret |-> "none"]
    /\ raw = Absent
    /\ chunk = Absent
    /\ cmut = AbsentMut
    /\ fed = <<>>
    /\ got = <<>>
    /\ last = NoCall
    /\ stack = <<>>
    /\ res = InitResult

NextReader ==
    \/ fwd.pc = "poll" /\ \E n \in ReadSizes : PollReadUtf8(n)
    \/ Break
    \/ WriteAll
    \/ Flush

SpecReader == InitReader /\ [][NextReader]_vars

Init == InitExtract \/ InitRange \/ InitMut \/ InitReader

\* One thread: while a freeze call is in progress nothing else runs.
Next ==
    \/ stack = <<>> /\ (NextExtract \/ NextConv \/ NextRange \/ NextSlice)
    \/ NextMut
    \/ NextReader

Spec == Init /\ [][Next]_vars

\* ================================================== the properties
\* C1: after any sequence of operations the content of every StrChunk and
\* the initialized content of every StrChunkMut is valid UTF-8; so is
\* every chunk an operation hands out (res.out).
C1_ContentIsUtf8 ==
    /\ chunk.some => IsUtf8(chunk.bytes)
    /\ cmut.some => IsUtf8(cmut.bytes)
    /\ IsUtf8(res.out)
    /\ IsUtf8(fwd.chunk)

\* A StrChunkMut holding multi-byte text was split in two non-empty parts.
C1_Witness ==
    /\ res.op = "take_range" /\ res.target = "StrChunkMut"
    /\ res.tag = "Ok"
    /\ res.out # <<>> /\ cmut.bytes # <<>>
    /\ \E i \in 1..Len(res.src) : res.src[i] >= 128

\* C2: extract_utf8 on a raw buffer holding exactly a valid UTF-8 sequence
\* (the empty one included) returns Ok with a chunk equal to it and leaves
\* the raw buffer empty.
C2_ValidInputExtractedWhole ==
    (res.op = "extract_utf8" /\ IsUtf8(res.src)) =>
        /\ res.tag = "Ok"
        /\ res.out = res.src
        /\ raw.bytes = <<>>

C2_Witness ==
    /\ res.op = "extract_utf8" /\ IsUtf8(res.src)
    /\ Len(res.src) >= 3
    /\ \E i \in 1..Len(res.src) : res.src[i] >= 128

\* C3: when the raw buffer is a valid UTF-8 prefix followed only by the
\* first bytes of a multi-byte character cut short by the buffer's end,
\* extract_utf8 returns Ok with exactly the prefix and leaves exactly the
\* incomplete bytes in the raw buffer.
C3_IncompleteTailStays ==
    res.op = "extract_utf8" =>
        \A k \in 0..Len(res.src) :
            (IsUtf8(Take(res.src, k)) /\ IncompleteChar(Drop(res.src, k))) =>
                /\ res.tag = "Ok"
                /\ res.out = Take(res.src, k)
                /\ raw.bytes = Drop(res.src, k)

\* A non-empty prefix was extracted and a two-byte incomplete tail kept.
C3_Witness ==
    /\ res.op = "extract_utf8"
    /\ \E k \in 1..Len(res.src) :
          /\ IsUtf8(Take(res.src, k))
          /\ IncompleteChar(Drop(res.src, k))
          /\ Len(res.src) - k >= 2

\* The raw buffer holds a sequence that can never be completed: after its
\* longest valid prefix comes neither the end nor an incomplete character.
NeverCompletes(s) ==
    /\ LongestValidPrefix(s) < Len(s)
    /\ ~IncompleteChar(Drop(s, LongestValidPrefix(s)))

\* C4: on a raw buffer holding a sequence that can never be completed,
\* extract_utf8 returns Err carrying the longest valid prefix and the
\* length of the invalid sequence; the raw buffer is left beginning at the
\* first byte of the invalid sequence.
C4_ErrCarriesPrefixAndLength ==
    (res.op = "extract_utf8" /\ NeverCompletes(res.src)) =>
        LET p == LongestValidPrefix(res.src)
        IN  /\ res.tag = "Err"
            /\ res.out = Take(res.src, p)
            /\ res.n = InvalidSeqLen(Drop(res.src, p))
            /\ raw.bytes = Drop(res.src, p)

\* A non-empty prefix, then an invalid sequence of more than one byte.
C4_Witness ==
    /\ res.op = "extract_utf8" /\ NeverCompletes(res.src)
    /\ res.out # <<>>
    /\ res.n >= 2

\* C5: a valid UTF-8 string fed in pieces, with extract_utf8 called after
\* each piece, comes out whole: every call returns Ok, the chunks
\* concatenated equal the string, and the raw buffer is empty after the
\* call that follows the last piece.
C5_ChunkBoundaryIndependent ==
    (res.op = "extract_utf8" /\ IsUtf8(fed)) =>
        /\ res.tag = "Ok"
        /\ res.before.tag \in {"none", "Ok"}
        /\ got = fed
        /\ raw.bytes = <<>>

\* The second of two calls, the first having stopped inside a character.
C5_Witness ==
    /\ res.op = "extract_utf8" /\ IsUtf8(fed)
    /\ res.before.tag = "Ok"
    /\ res.before.then = "extend"
    /\ res.before.rest # <<>>
    /\ Len(got) > Len(res.out)
    /\ Len(res.src) > Len(res.before.rest)

\* C6: after extract_utf8 returned Err (carrying the longest valid prefix
\* p), advancing the raw buffer by error_len and calling extract_utf8
\* again returns Ok with exactly the rest q when q is valid UTF-8; q is the
\* tail of the input as it was fed, nothing is inserted.
C6_LossyRecoveryResumes ==
    /\ (res.op = "extract_utf8" /\ res.tag = "Err") =>
          res.out = Take(res.src, LongestValidPrefix(res.src))
    /\ (/\ res.op = "extract_utf8"
        /\ res.before.tag = "Err"
        /\ res.before.then = "advance"
        /\ IsUtf8(Drop(res.before.rest, res.before.error_len))) =>
          LET q == Drop(res.before.rest, res.before.error_len)
          IN  /\ res.tag = "Ok"
              /\ res.out = q
              /\ raw.bytes = <<>>
              /\ Drop(fed, Len(fed) - Len(q)) = q
              /\ Drop(got, Len(got) - Len(q)) = q

\* p, x and q all non-empty: the second call returned q.
C6_Witness ==
    /\ res.op = "extract_utf8"
    /\ res.before.tag = "Err"
    /\ res.before.then = "advance"
    /\ IsUtf8(Drop(res.before.rest, res.before.error_len))
    /\ res.out # <<>>
    /\ Len(got) > Len(res.out)

\* C19: extract_utf8 neither loses, duplicates nor reorders bytes: in each
\* outcome (fully valid, incomplete tail, invalid sequence) the returned
\* or error-carried chunk followed by what is left in the raw buffer is
\* the raw buffer as it was before the call.
C19_ExtractPartitionsTheBuffer ==
    res.op = "extract_utf8" =>
        /\ res.out \o raw.bytes = res.src
        /\ Len(res.out) + Len(raw.bytes) = Len(res.src)

\* An Err outcome with a non-empty chunk and more than the invalid
\* sequence left behind.
C19_Witness ==
    /\ res.op = "extract_utf8" /\ res.tag = "Err"
    /\ res.out # <<>>
    /\ Len(raw.bytes) > res.n

\* C20: after extract_utf8 returned Ok the raw buffer is empty or holds
\* one to three bytes that begin a multi-byte character and do not finish
\* it; the chunk is the longest valid prefix, so no complete code point
\* stays behind.  Being an invariant, it holds after every cycle of
\* appending and extracting.
C20_LeftoverIsAnUnfinishedChar ==
    (res.op = "extract_utf8" /\ res.tag = "Ok") =>
        /\ \/ raw.bytes = <<>>
           \/ /\ Len(raw.bytes) \in 1..3
              /\ IncompleteChar(raw.bytes)
        /\ Len(res.out) = LongestValidPrefix(res.src)
        /\ \A k \in 1..Len(raw.bytes) : ~IsUtf8(Take(raw.bytes, k))

\* The second cycle in a row that ends with an unfinished character in
\* the raw buffer, after handing out a chunk.
C20_Witness ==
    /\ res.op = "extract_utf8" /\ res.tag = "Ok"
    /\ res.before.tag = "Ok" /\ res.before.rest # <<>>
    /\ res.before.then = "extend"
    /\ res.out # <<>>
    /\ raw.bytes # <<>>

\* C21: the lossy-recovery loop terminates.  With no further appends,
\* every Err carries 1 <= error_len <= the bytes left in the raw buffer,
\* so each advance is in bounds and strictly shortens the buffer, and the
\* loop 'extract_utf8; on Err advance by error_len' reaches an Ok result.
C21_LossyLoopTerminates ==
    /\ []((res.op = "extract_utf8" /\ res.tag = "Err") =>
              (1 <= res.n /\ res.n <= Len(raw.bytes)))
    /\ [][res'.op = "advance" =>
              /\ res'.tag = "Ok"
              /\ Len(raw'.bytes) < Len(raw.bytes)]_vars
    /\ <>(last.tag = "Ok")

\* Ok was reached after an error step, with at least two bytes skipped
\* or still held back on the way.
C21_Witness ==
    /\ res.op = "extract_utf8" /\ res.tag = "Ok"
    /\ res.before.tag = "Err" /\ res.before.then = "advance"
    /\ res.before.error_len >= 2
    /\ got # <<>>

\* C22: building or extending a StrChunkMut from an iterator of chars
\* never runs short of capacity: at every put_char call of the loop at
\* least 4 bytes of capacity remain, for every iterator length and every
\* size hint, 0 included, and the content afterwards is the previous
\* content followed by the encodings of the characters (an empty
\* iterator leaves it as it was).
C22_CharsIteratorAlwaysFits ==
    res.op \in {"from_iter", "extend"} =>
        /\ res.tag = "Ok"
        /\ res.out # <<>> => res.n >= 4
        /\ cmut.bytes = res.src \o res.out
        /\ cmut.cap >= Len(cmut.bytes)
        /\ res.op = "from_iter" => res.src = <<>>

\* Three characters, one of them four bytes long, appended after
\* existing content with a size hint of 0.
C22_Witness ==
    /\ res.op = "extend" /\ res.tag = "Ok"
    /\ res.src # <<>>
    /\ res.range.idx = 0
    /\ Len(res.out) >= 6
    /\ \E i \in 1..Len(res.out) : res.out[i] >= 240

\* ------------------------------------------------------- ordering
\* The code points of a valid UTF-8 text.
RECURSIVE Decode(_)
Decode(s) ==
    IF s = <<>> THEN <<>>
    ELSE LET b == s[1]
             w == IF b < 128 THEN 1 ELSE Utf8CharWidth(b)
             cp == CASE w = 1 -> b
                     [] w = 2 -> (b - 192) * 64 + (s[2] - 128)
                     [] w = 3 -> (b - 224) * 4096 + (s[2] - 128) * 64
                                     + (s[3] - 128)
                     [] OTHER -> (b - 240) * 262144 + (s[2] - 128) * 4096
                                     + (s[3] - 128) * 64 + (s[4] - 128)
         IN  <<cp>> \o Decode(Drop(s, w))

\* x comes before y as a string: at the first character where they
\* differ x has the smaller one, or x is a proper prefix of y.
StrLess(x, y) ==
    LET u == Decode(x)
        v == Decode(y)
    IN  \E k \in 0..Len(u) :
            /\ k <= Len(v)
            /\ Take(u, k) = Take(v, k)
            /\ \/ k = Len(u) /\ k < Len(v)
               \/ k < Len(u) /\ k < Len(v) /\ u[k + 1] < v[k + 1]

Holds(op, x, y) ==
    CASE op = "lt" -> StrLess(x, y)
      [] op = "le" -> StrLess(x, y) \/ x = y
      [] op = "gt" -> StrLess(y, x)
      [] OTHER -> StrLess(y, x) \/ x = y

\* C23: ordering is by content and the same in both operand orders.  For
\* a buffer and a value of any of the six string types, a < b, a <= b,
\* a > b, a >= b and the mirrored forms with the buffer on the right all
\* give what comparing the two texts as strings gives, and the derived
\* Ord::cmp agrees with partial_cmp.
C23_OrderingByContent ==
    /\ res.op \in OrdOps =>
          (res.tag = "true" <=> Holds(res.op, res.src, res.out))
    /\ res.op = "cmp" =>
          /\ res.tag = OrderingName(res.n)
          /\ res.tag = "Less" <=> StrLess(res.src, res.out)
          /\ res.tag = "Equal" <=> res.src = res.out
          /\ res.tag = "Greater" <=> StrLess(res.out, res.src)

\* A Cow on the left is less than a StrChunkMut on the right, the two
\* starting with different multi-byte characters.
C23_Witness ==
    /\ res.op = "lt" /\ res.tag = "true" /\ res.n = 1
    /\ res.target = "Cow" /\ res.msg = "StrChunkMut"
    /\ res.src # <<>> /\ res.out # <<>>
    /\ res.src[1] >= 128 /\ res.out[1] >= 128
    /\ res.src[1] # res.out[1]

\* ------------------------------------------------ the stream reader
\* The input ends inside a character: after its longest valid prefix
\* come only the first bytes of one multi-byte character.
Truncated(s) == IncompleteChar(Drop(s, LongestValidPrefix(s)))

\* C16: a truncated stream is always reported.  When a read appends
\* nothing while the reader's buffer still holds an unfinished sequence,
\* the caller gets InvalidData; and however the source splits a truncated
\* input across reads, forward_all never returns Ok for it.
C16_TruncatedStreamReported ==
    /\ (fwd.bytes_read = 0 /\ reader.buf # <<>>) => fwd.ret = "InvalidData"
    /\ Truncated(input.bytes) => fwd.ret # "Ok"

\* C17: forward_all forwards everything.  For valid UTF-8 input delivered
\* as any sequence of non-empty reads and then end of stream, when
\* forward_all returns Ok the output holds exactly the input bytes, and
\* the loop was left only on a read of nothing with the source drained.
C17_ForwardsEverything ==
    (IsUtf8(input.bytes) /\ fwd.ret = "Ok") =>
        /\ output = input.bytes
        /\ input.pos = Len(input.bytes)
        /\ fwd.bytes_read = 0

\* ------------------------------------------------ range operations
RangeOps == {"take_range", "remove_range"}

\* The content of the buffer the last operation was applied to.
Target == IF res.target = "StrChunkMut" THEN cmut.bytes ELSE chunk.bytes

\* The finite endpoint of a range, as a number: n + 1 for ..=n.
Endpoint(range) ==
    IF range.kind = "ToInclusive" THEN range.idx + 1 ELSE range.idx

\* e is greater than the length of s or indexes a continuation byte.
NotCodePointBoundary(s, e) ==
    \/ e > Len(s)
    \/ e < Len(s) /\ InRange(s[e + 1], 128, 191)

\* C7: take_range and remove_range panic exactly when the range's finite
\* endpoint is greater than the length or indexes a continuation byte;
\* the full range and the endpoints 0 and len never panic; for ..=n the
\* endpoint is n + 1, and ..=usize::MAX panics as too large.
C7_PanicsExactlyOffBoundary ==
    res.op \in RangeOps =>
        /\ res.tag = "Panic" <=>
              /\ res.range.kind # "Full"
              /\ NotCodePointBoundary(res.src, Endpoint(res.range))
        /\ (res.range.kind = "ToInclusive" /\ res.range.idx = UsizeMax) =>
              res.msg = "too large"
        /\ res.msg = "too large" => res.range.idx = UsizeMax

\* ..=n with n + 1 inside the content, on a continuation byte.
C7_Witness ==
    /\ res.op \in RangeOps /\ res.tag = "Panic"
    /\ res.range.kind = "ToInclusive"
    /\ res.range.idx + 1 < Len(res.src)

\* C8: a take_range or remove_range that panics leaves the buffer's
\* content (and so its length) exactly as it was before the call.
C8_AllOrNothing ==
    (res.op \in RangeOps /\ res.tag = "Panic") =>
        /\ Target = res.src
        /\ res.out = <<>>

\* n.. with n inside a multi-byte character.
C8_Witness ==
    /\ res.op \in RangeOps /\ res.tag = "Panic"
    /\ res.range.kind = "From"
    /\ res.msg = "not a boundary"
    /\ Target # <<>>

\* The part of s inside a range and the part outside it.
Inside(s, range) ==
    CASE range.kind = "Full" -> s
      [] range.kind = "From" -> Drop(s, range.idx)
      [] OTHER -> Take(s, Endpoint(range))

Outside(s, range) ==
    CASE range.kind = "Full" -> <<>>
      [] range.kind = "From" -> Take(s, range.idx)
      [] OTHER -> Drop(s, Endpoint(range))

\* C9: for a valid range take_range returns the part of the content inside
\* the range and leaves the part outside it (..=n as ..n+1); remove_range
\* leaves the same remainder; StrChunk and StrChunkMut behave alike.
C9_TakeRangeSplitsContent ==
    (res.op \in RangeOps /\ res.tag = "Ok") =>
        /\ Target = Outside(res.src, res.range)
        /\ res.op = "take_range" => res.out = Inside(res.src, res.range)

\* ..=n taken out of a StrChunk, both parts non-empty.
C9_Witness ==
    /\ res.op = "take_range" /\ res.tag = "Ok"
    /\ res.target = "StrChunk"
    /\ res.range.kind = "ToInclusive"
    /\ res.out # <<>> /\ chunk.bytes # <<>>

\* C10: a rejected From(i) or To(i) range is reported as out of bounds
\* iff i is greater than the length of the string, and as not splitting
\* on a UTF-8 boundary otherwise (i inside a multi-byte character); the
\* full range is never rejected.
C10_DiagnosticNamesTheCause ==
    (res.op \in RangeOps \cup {"validate_str_split"}
        /\ res.range.kind \in {"Full", "From", "To"}) =>
        /\ res.range.kind = "Full" => res.tag = "Ok"
        /\ res.tag = "Panic" =>
              /\ res.msg = "out of bounds" <=> res.range.idx > Len(res.src)
              /\ res.msg # "out of bounds" =>
                    /\ res.msg = "not a boundary"
                    /\ res.range.idx < Len(res.src)
                    /\ InRange(res.src[res.range.idx + 1], 128, 191)

\* validate_str_split rejected an index past the end.
C10_Witness ==
    /\ res.op = "validate_str_split" /\ res.tag = "Panic"
    /\ res.msg = "out of bounds"
    /\ res.range.idx = Len(res.src) + 1
    /\ res.src # <<>>

\* ------------------------------------------------------ StrChunkMut
FreezeOps == {"freeze", "from"}

\* C11: code points appended with put_char, then freeze, yield a StrChunk
\* holding the concatenation of their encodings: a freeze call does not
\* end in an abort, and once it has returned the chunk holds what the
\* StrChunkMut held.
C11_FreezeYieldsTheContent ==
    res.op \in FreezeOps =>
        /\ res.tag # "Abort"
        /\ res.tag = "Ok" => chunk.some /\ chunk.bytes = res.src

\* C12: put_char panics whenever the remaining capacity is smaller than
\* the encoded length of the character, remaining capacity 0 included,
\* and a call that panics leaves the content as it was.
C12_PutCharPanicsWhenShort ==
    [][(res'.op = "put_char"
            /\ cmut.cap - Len(cmut.bytes) < len_utf8(res'.n)) =>
          (res'.tag = "Panic" /\ cmut'.bytes = cmut.bytes)]_vars

\* C18: freeze and StrChunk::from(StrChunkMut) return after a bounded
\* number of calls: neither function is ever on the call stack twice.
C18_FreezeDoesNotRecurse ==
    \A i \in 1..Len(stack) : \A j \in 1..Len(stack) :
        i # j => stack[i].fn # stack[j].fn

\* ------------------------------------------------------ conversions
\* C13: a checked conversion from raw bytes returns Err iff the bytes are
\* not valid UTF-8 (an incomplete trailing sequence included); on Ok the
\* new buffer holds exactly the input bytes, and converting it back
\* returns the original bytes.
C13_CheckedConversionRoundTrip ==
    [][/\ res'.op = "try_from" =>
            /\ res'.tag = "Err" <=> ~IsUtf8(raw.bytes)
            /\ res'.tag = "Ok" =>
                  /\ res'.out = raw.bytes
                  /\ IF res'.target = "StrChunk"
                     THEN chunk'.some /\ chunk'.bytes = raw.bytes
                     ELSE cmut'.some /\ cmut'.bytes = raw.bytes
       /\ (res'.op = "into_bytes" /\ res.op = "try_from") =>
            /\ raw'.some
            /\ raw'.bytes = res.src]_vars

\* Multi-byte text went into a StrChunkMut and came back as bytes.
C13_Witness ==
    /\ res.op = "into_bytes" /\ res.target = "StrChunkMut"
    /\ raw.some /\ Len(raw.bytes) >= 3
    /\ \E i \in 1..Len(raw.bytes) : raw.bytes[i] >= 128

\* ------------------------------------------------- StrChunk::slice
\* The bounds of the range the last slice call was given, as numbers.
SliceBegin ==
    IF res.range.kind \in {"From", "Span", "SpanInclusive"}
    THEN res.range.idx ELSE 0

SliceEnd ==
    CASE res.range.kind \in {"Full", "From"} -> Len(res.src)
      [] res.range.kind = "To" -> res.range.idx
      [] res.range.kind = "ToInclusive" -> res.range.idx + 1
      [] res.range.kind = "Span" -> res.n
      [] OTHER -> res.n + 1

\* Both bounds are within the length and on code-point boundaries.
SliceBoundsFit ==
    /\ ~NotCodePointBoundary(res.src, SliceBegin)
    /\ ~NotCodePointBoundary(res.src, SliceEnd)

\* C14, as stated: slice returns the bytes inside the range for every
\* range whose bounds are within the length and on code-point boundaries,
\* and panics for every other range; self is unchanged.
C14_SliceAsStated ==
    res.op = "slice" =>
        /\ res.tag = "Ok" <=> SliceBoundsFit
        /\ res.tag = "Ok" => res.out = SubSeq(res.src, SliceBegin + 1, SliceEnd)
        /\ chunk.bytes = res.src

\* C14, amended: the range must also not be inverted; slice panics for a
\* range whose start is greater than its end even when both bounds are
\* on code-point boundaries.
C14_SliceReturnsTheRange ==
    res.op = "slice" =>
        /\ res.tag = "Ok" <=> (SliceBoundsFit /\ SliceBegin <= SliceEnd)
        /\ res.tag = "Ok" => res.out = SubSeq(res.src, SliceBegin + 1, SliceEnd)
        /\ res.tag = "Panic" => res.out = <<>>
        /\ chunk.bytes = res.src

\* start..end with both bounds on boundaries of multi-byte text, start
\* greater than end: the call panicked.
C14_Witness ==
    /\ res.op = "slice" /\ res.range.kind = "Span"
    /\ SliceBoundsFit
    /\ SliceBegin > SliceEnd
    /\ res.tag = "Panic"
    /\ \E i \in 1..Len(res.src) : res.src[i] >= 128

====
